---- MODULE Spec2Model ----
(***************************************************************************)
(* Model of the vCard mapping layer (vcard.go): VCard.ReadFrom, which      *)
(* consumes ContentLines from a DirectoryInfoReader, and VCard.WriteTo,    *)
(* which hands ContentLines to a DirectoryInfoWriter.                      *)
(*                                                                         *)
(* Text is a sequence of ASCII codes, so that quoted-printable decoding,   *)
(* lower-casing and structured-value splitting are computed, not assumed.  *)
(* A Value is a sequence of texts, a StructuredValue a sequence of Values. *)
(* Go's nil slice and empty slice are both the empty sequence.             *)
(* Property names and parameter keys are strings: the mapping layer only   *)
(* ever compares them for exact equality (switch labels, map lookups).     *)
(***************************************************************************)
EXTENDS Integers, Sequences, FiniteSets, TLC

VARIABLES
  input,    \* the logical lines behind the DirectoryInfoReader
  pos,      \* the reader's cursor: how many of them are consumed
  reader,   \* "stream": raw lines from outside; "loopback": the writer's output
  cur,      \* ReadFrom's local contentLine
  pc,       \* "idle", "loop" (inside ReadFrom), "done" (ReadFrom has returned)
  vcard,    \* the VCard that ReadFrom fills and WriteTo writes
  out,      \* the ContentLines handed to the DirectoryInfoWriter
  nWrites,  \* WriteTo calls so far
  saved     \* the VCard as it was at the last WriteTo call

vars == <<input, pos, reader, cur, pc, vcard, out, nWrites, saved>>

(***************************************************************************)
(* Bounds                                                                  *)
(***************************************************************************)
\* longest raw stream handed to the reader in Spec
MaxLines == 3
\* number of WriteTo calls on one writer
MaxWrites == 1

(***************************************************************************)
(* Texts used by the code and by the inputs (ASCII codes)                  *)
(***************************************************************************)
EmptyText == <<>>
\* "VCARD"
TxtVCARD == <<86, 67, 65, 82, 68>>
\* "3.0"
TxtVersion30 == <<51, 46, 48>>
\* "voice"
TxtVoice == <<118, 111, 105, 99, 101>>
\* "HOME"
TxtHOME == <<72, 79, 77, 69>>
\* "WORK"
TxtWORK == <<87, 79, 82, 75>>
\* "Intl", "Postal", "Parcel", "Work"
TxtIntl == <<73, 110, 116, 108>>
TxtPostal == <<80, 111, 115, 116, 97, 108>>
TxtParcel == <<80, 97, 114, 99, 101, 108>>
TxtWork == <<87, 111, 114, 107>>
\* "quoted-printable" and "QUOTED-PRINTABLE"
TxtQPLower == <<113, 117, 111, 116, 101, 100, 45, 112, 114, 105, 110, 116, 97, 98, 108, 101>>
TxtQPUpper == <<81, 85, 79, 84, 69, 68, 45, 80, 82, 73, 78, 84, 65, 66, 76, 69>>
\* "Quoted-Printable"
TxtQPMixed == <<81, 117, 111, 116, 101, 100, 45, 80, 114, 105, 110, 116, 97, 98, 108, 101>>
\* "8BIT"
Txt8BIT == <<56, 66, 73, 84>>
\* "JPEG"
TxtJPEG == <<74, 80, 69, 71>>
\* "x", "y"
TxtX == <<120>>
TxtY == <<121>>

(***************************************************************************)
(* strings.ToLower on ASCII text                                           *)
(***************************************************************************)
ToLower(t) == [i \in 1..Len(t) |-> IF t[i] >= 65 /\ t[i] <= 90 THEN t[i] + 32 ELSE t[i]]

(***************************************************************************)
(* Quoted-Printable Codec (spec 4.1): =XX with two hex digits is one byte, *)
(* a trailing = is a soft line break and is removed, any other = is a      *)
(* MalformedEscape.                                                        *)
(***************************************************************************)
IsHex(c) == (c >= 48 /\ c <= 57) \/ (c >= 65 /\ c <= 70) \/ (c >= 97 /\ c <= 102)

HexVal(c) == IF c <= 57 THEN c - 48 ELSE IF c <= 70 THEN c - 55 ELSE c - 87

RECURSIVE QPScan(_, _, _)
QPScan(t, i, acc) ==
  IF i > Len(t) THEN [ok |-> TRUE, bytes |-> acc]
  ELSE IF t[i] # 61 THEN QPScan(t, i + 1, Append(acc, t[i]))
  ELSE IF i = Len(t) THEN [ok |-> TRUE, bytes |-> acc]
  ELSE IF i + 2 <= Len(t) /\ IsHex(t[i + 1]) /\ IsHex(t[i + 2])
       THEN QPScan(t, i + 3, Append(acc, 16 * HexVal(t[i + 1]) + HexVal(t[i + 2])))
  ELSE [ok |-> FALSE, bytes |-> acc]

\* ioutil.ReadAll(newQuotedPrintableReader(strings.NewReader(text)))
QPDecode(t) == QPScan(t, 1, <<>>)

(***************************************************************************)
(* Value Grammar (spec 4.2): split on unescaped ; and , with backslash     *)
(* escaping ; , and \ itself.  The empty text yields one Value holding one *)
(* empty text.                                                             *)
(***************************************************************************)
RECURSIVE SplitScan(_, _, _, _, _)
SplitScan(t, i, elem, val, sv) ==
  IF i > Len(t) THEN Append(sv, Append(val, elem))
  ELSE IF t[i] = 92 /\ i < Len(t) /\ t[i + 1] \in {59, 44, 92}
       THEN SplitScan(t, i + 2, Append(elem, t[i + 1]), val, sv)
  ELSE IF t[i] = 59 THEN SplitScan(t, i + 1, <<>>, <<>>, Append(sv, Append(val, elem)))
  ELSE IF t[i] = 44 THEN SplitScan(t, i + 1, <<>>, Append(val, elem), sv)
  ELSE SplitScan(t, i + 1, Append(elem, t[i]), val, sv)

splitStructured(raw) == SplitScan(raw, 1, <<>>, <<>>, <<>>)

(***************************************************************************)
(* Value.GetText, StructuredValue.GetText, StructuredValue.GetTextList     *)
(* (spec 3): a single element is plain text, several are joined into the   *)
(* whole field as one string with the grammar's separators.                *)
(***************************************************************************)
RECURSIVE JoinTexts(_, _)
JoinTexts(ts, sep) ==
  IF Len(ts) = 0 THEN <<>>
  ELSE IF Len(ts) = 1 THEN ts[1]
  ELSE ts[1] \o <<sep>> \o JoinTexts(Tail(ts), sep)

GetText(v) == JoinTexts(v, 44)

SVGetText(sv) == JoinTexts([i \in 1..Len(sv) |-> GetText(sv[i])], 59)

GetTextList(sv) == IF Len(sv) > 0 THEN sv[1] ELSE <<>>

(***************************************************************************)
(* ContentLine and its parameter map (map[string]Value)                    *)
(***************************************************************************)
NoParams == [k \in {} |-> <<>>]

ContentLine(group, name, params, value) ==
  [Group |-> group, Name |-> name, Params |-> params, Value |-> value]

\* the nil *ContentLine
NilLine == [nil |-> TRUE]

\* params[key] of a Go map: the zero Value when the key is absent
ParamGet(params, key) == IF key \in DOMAIN params THEN params[key] ELSE <<>>

(***************************************************************************)
(* Content-Line Scanner (spec 4.3) on a logical line whose head is already *)
(* split into group, name and parameters: ENCODING=QUOTED-PRINTABLE (key   *)
(* and value in any case) decodes the raw text before it is split, and a   *)
(* decode failure keeps the raw text.                                      *)
(***************************************************************************)
ParamKeyUpper(k) ==
  CASE k \in {"TYPE", "type", "Type"} -> "TYPE"
    [] k \in {"ENCODING", "encoding", "Encoding"} -> "ENCODING"
    [] k \in {"VALUE", "value", "Value"} -> "VALUE"
    [] OTHER -> k

DeclaresQP(params) ==
  \E k \in DOMAIN params :
    ParamKeyUpper(k) = "ENCODING" /\ ToLower(GetText(params[k])) = TxtQPLower

ScanLine(line) ==
  LET dec == QPDecode(line.Raw)
      text == IF DeclaresQP(line.Params) /\ dec.ok THEN dec.bytes ELSE line.Raw
  IN ContentLine(line.Group, line.Name, line.Params, splitStructured(text))

\* what one stream item yields: a raw logical line is scanned, a ContentLine
\* handed over by the writer is delivered as it was written
Deliver(item) == IF item.kind = "raw" THEN ScanLine(item) ELSE item.cl

(***************************************************************************)
(* DirectoryInfoReader.ReadContentLine (spec 4.3, 4.5, 7): logical lines   *)
(* with no colon are skipped, the next well-formed one is returned, nil at *)
(* the end of the stream.                                                  *)
(***************************************************************************)
RECURSIVE NextWellFormed(_, _)
NextWellFormed(in, p) ==
  IF p >= Len(in) THEN Len(in) + 1
  ELSE IF in[p + 1].kind # "nocolon" THEN p + 1
  ELSE NextWellFormed(in, p + 1)

ReadContentLine(in, p) ==
  LET q == NextWellFormed(in, p)
  IN IF q > Len(in) THEN [cl |-> NilLine, pos |-> Len(in)]
     ELSE [cl |-> Deliver(in[q]), pos |-> q]

(***************************************************************************)
(* vcard.go: the VCard and its parts                                       *)
(***************************************************************************)
Photo(encoding, type, value, data) ==
  [Encoding |-> encoding, Type |-> type, Value |-> value, Data |-> data]

EmptyPhoto == Photo(EmptyText, EmptyText, EmptyText, EmptyText)

Address(type, pob, ext, str, loc, reg, code, country) ==
  [Type |-> type, Label |-> EmptyText, PostOfficeBox |-> pob, ExtendedAddress |-> ext,
   Street |-> str, Locality |-> loc, Region |-> reg, PostalCode |-> code,
   CountryName |-> country]

Telephone(type, number) == [Type |-> type, Number |-> number]

Email(type, address) == [Type |-> type, Address |-> address]

XJabber(type, address) == [Type |-> type, Address |-> address]

\* the zero VCard
EmptyVCard ==
  [Version |-> EmptyText, FormattedName |-> EmptyText, FamilyNames |-> <<>>,
   GivenNames |-> <<>>, AdditionalNames |-> <<>>, HonorificNames |-> <<>>,
   HonorificSuffixes |-> <<>>, NickNames |-> <<>>, Photo |-> EmptyPhoto,
   Birthday |-> EmptyText, Addresses |-> <<>>, Telephones |-> <<>>, Emails |-> <<>>,
   Title |-> EmptyText, Role |-> EmptyText, Org |-> <<>>, Categories |-> <<>>,
   Note |-> EmptyText, URL |-> EmptyText, XJabbers |-> <<>>, XABuid |-> EmptyText,
   XABShowAs |-> EmptyText]

defaultAddressTypes == <<TxtIntl, TxtPostal, TxtParcel, TxtWork>>

\* indexes into the StructuredValue of N
familyNames == 0
givenNames == 1
additionalNames == 2
honorificPrefixes == 3
honorificSuffixes == 4
nameSize == honorificSuffixes + 1

\* indexes into the StructuredValue of ADR
postOfficeBox == 0
extendedAddress == 1
street == 2
locality == 3
region == 4
postalCode == 5
countryName == 6
addressSize == countryName + 1

(***************************************************************************)
(* getValueFromContentLine: the component at index and its text, decoded   *)
(* when Params["ENCODING"] is quoted-printable; (nil, "") past the end.    *)
(***************************************************************************)
\* faulty variant: the bound check is strict, so the last component is lost
getValueFromContentLine_DropsLast(index, contentLine) ==
  LET maxIndex == Len(contentLine.Value) - 1
  IN IF maxIndex > index
     THEN LET text == GetText(contentLine.Value[index + 1])
              dec == QPDecode(text)
          IN IF ToLower(GetText(ParamGet(contentLine.Params, "ENCODING"))) = TxtQPLower
             THEN IF ~dec.ok
                  THEN [val |-> contentLine.Value[index + 1], text |-> text]
                  ELSE [val |-> contentLine.Value[index + 1], text |-> dec.bytes]
             ELSE [val |-> contentLine.Value[index + 1], text |-> text]
     ELSE [val |-> <<>>, text |-> EmptyText]

\* faulty variant: the decoder's error is ignored and its partial output returned
getValueFromContentLine_EmptyOnError(index, contentLine) ==
  LET maxIndex == Len(contentLine.Value) - 1
  IN IF maxIndex >= index
     THEN LET text == GetText(contentLine.Value[index + 1])
              dec == QPDecode(text)
          IN IF ToLower(GetText(ParamGet(contentLine.Params, "ENCODING"))) = TxtQPLower
             THEN [val |-> contentLine.Value[index + 1], text |-> dec.bytes]
             ELSE [val |-> contentLine.Value[index + 1], text |-> text]
     ELSE [val |-> <<>>, text |-> EmptyText]

getValueFromContentLine(index, contentLine) ==
  LET maxIndex == Len(contentLine.Value) - 1
  IN IF maxIndex >= index
     THEN LET text == GetText(contentLine.Value[index + 1])
              dec == QPDecode(text)
          IN IF ToLower(GetText(ParamGet(contentLine.Params, "ENCODING"))) = TxtQPLower
             THEN IF ~dec.ok
                  THEN [val |-> contentLine.Value[index + 1], text |-> text]
                  ELSE [val |-> contentLine.Value[index + 1], text |-> dec.bytes]
             ELSE [val |-> contentLine.Value[index + 1], text |-> text]
     ELSE [val |-> <<>>, text |-> EmptyText]

(***************************************************************************)
(* VCard.ReadFrom: the branches of the switch on contentLine.Name          *)
(***************************************************************************)
\* faulty variant: END returns whatever its value
IsEndOfCard_AnyValue(contentLine) == contentLine.Name \in {"END", "end"}

\* case "END", "end": return when the value is VCARD
IsEndOfCard(contentLine) ==
  contentLine.Name \in {"END", "end"} /\ SVGetText(contentLine.Value) = TxtVCARD

\* param, ok := contentLine.Params[key]; the given default when not ok
TypeOrDefault(contentLine, key, default) ==
  IF key \in DOMAIN contentLine.Params THEN contentLine.Params[key] ELSE default

ReadN(v, contentLine) ==
  IF Len(contentLine.Value) > 0
  THEN [v EXCEPT !.FamilyNames = getValueFromContentLine(familyNames, contentLine).val,
                 !.GivenNames = getValueFromContentLine(givenNames, contentLine).val,
                 !.AdditionalNames = getValueFromContentLine(additionalNames, contentLine).val,
                 !.HonorificNames = getValueFromContentLine(honorificPrefixes, contentLine).val,
                 !.HonorificSuffixes = getValueFromContentLine(honorificSuffixes, contentLine).val]
  ELSE v

ReadPhoto(v, contentLine) ==
  [v EXCEPT !.Photo = Photo(GetText(ParamGet(contentLine.Params, "ENCODING")),
                            GetText(ParamGet(contentLine.Params, "TYPE")),
                            GetText(ParamGet(contentLine.Params, "VALUE")),
                            SVGetText(contentLine.Value))]

ReadADR(v, contentLine) ==
  IF Len(contentLine.Value) > 0
  THEN LET address ==
             Address(TypeOrDefault(contentLine, "TYPE", defaultAddressTypes),
                     getValueFromContentLine(postOfficeBox, contentLine).text,
                     getValueFromContentLine(extendedAddress, contentLine).text,
                     getValueFromContentLine(street, contentLine).text,
                     getValueFromContentLine(locality, contentLine).text,
                     getValueFromContentLine(region, contentLine).text,
                     getValueFromContentLine(postalCode, contentLine).text,
                     getValueFromContentLine(countryName, contentLine).text)
       IN [v EXCEPT !.Addresses = Append(@, address)]
  ELSE v

ReadTEL(v, contentLine) ==
  [v EXCEPT !.Telephones =
     Append(@, Telephone(TypeOrDefault(contentLine, "type", <<TxtVoice>>),
                         SVGetText(contentLine.Value)))]

ReadEMAIL(v, contentLine) ==
  [v EXCEPT !.Emails =
     Append(@, Email(TypeOrDefault(contentLine, "type", <<TxtHOME>>),
                     SVGetText(contentLine.Value)))]

ReadXJabber(v, contentLine) ==
  [v EXCEPT !.XJabbers =
     Append(@, XJabber(TypeOrDefault(contentLine, "type", <<TxtHOME>>),
                       SVGetText(contentLine.Value)))]

\* faulty variant: an unrecognised line is kept as the note
ReadDefault_StoresNote(v, contentLine) == [v EXCEPT !.Note = SVGetText(contentLine.Value)]

\* default: the line is logged and nothing is stored
ReadDefault(v, contentLine) == v

\* one pass through the switch for a line that does not end the card
ApplyLine(v, contentLine) ==
  LET name == contentLine.Name
      text == SVGetText(contentLine.Value)
  IN CASE name \in {"VERSION", "version"} -> [v EXCEPT !.Version = text]
       [] name \in {"END", "end"} -> v
       [] name \in {"FN", "fn"} -> [v EXCEPT !.FormattedName = text]
       [] name \in {"N", "n"} -> ReadN(v, contentLine)
       [] name \in {"NICKNAME", "nickname"} -> [v EXCEPT !.NickNames = GetTextList(contentLine.Value)]
       [] name \in {"PHOTO", "photo"} -> ReadPhoto(v, contentLine)
       [] name \in {"BDAY", "bday"} -> [v EXCEPT !.Birthday = text]
       [] name \in {"ADR", "adr"} -> ReadADR(v, contentLine)
       [] name \in {"X-ABUID", "x-abuid"} -> [v EXCEPT !.XABuid = text]
       [] name \in {"TEL", "tel"} -> ReadTEL(v, contentLine)
       [] name \in {"EMAIL", "email"} -> ReadEMAIL(v, contentLine)
       [] name \in {"TITLE", "title"} -> [v EXCEPT !.Title = text]
       [] name \in {"ROLE", "role"} -> [v EXCEPT !.Role = text]
       [] name \in {"ORG", "org"} -> [v EXCEPT !.Org = GetTextList(contentLine.Value)]
       [] name \in {"CATEGORIES", "categories"} -> [v EXCEPT !.Categories = GetTextList(contentLine.Value)]
       [] name \in {"NOTE", "note"} -> [v EXCEPT !.Note = text]
       [] name \in {"URL", "url"} -> [v EXCEPT !.URL = text]
       [] name \in {"X-JABBER", "x-jabber", "X-GTALK", "x-gtalk"} -> ReadXJabber(v, contentLine)
       [] name = "X-ABShowAs" -> [v EXCEPT !.XABShowAs = text]
       [] OTHER -> ReadDefault(v, contentLine)

(***************************************************************************)
(* WriteTo of the parts, and VCard.WriteTo: the ContentLines written, in   *)
(* the order of the WriteContentLine calls.                                *)
(***************************************************************************)
TextLine(name, text) == ContentLine("", name, NoParams, <<<<text>>>>)

\* zero or one line, by the text being empty
OptText(name, text) == IF Len(text) # 0 THEN <<TextLine(name, text)>> ELSE <<>>

\* zero or one line, by the list being empty
OptList(name, list) ==
  IF Len(list) # 0 THEN <<ContentLine("", name, NoParams, <<list>>)>> ELSE <<>>

PhotoWriteTo(photo) ==
  IF Len(photo.Data) = 0 THEN <<>>
  ELSE LET keys == (IF photo.Encoding # EmptyText THEN {"ENCODING"} ELSE {})
                   \cup (IF photo.Type # EmptyText THEN {"type"} ELSE {})
                   \cup (IF photo.Value # EmptyText THEN {"VALUE"} ELSE {})
                   \cup (IF photo.Encoding = EmptyText /\ photo.Type = EmptyText
                            /\ photo.Value = EmptyText THEN {"BASE64"} ELSE {})
           params == [k \in keys |->
                        CASE k = "ENCODING" -> <<photo.Encoding>>
                          [] k = "type" -> <<photo.Type>>
                          [] k = "VALUE" -> <<photo.Value>>
                          [] OTHER -> <<>>]
       IN <<ContentLine("", "PHOTO", params, <<<<photo.Data>>>>)>>

AddressWriteTo(addr) ==
  ContentLine("", "ADR", [type |-> addr.Type],
              <<<<addr.PostOfficeBox>>, <<addr.ExtendedAddress>>, <<addr.Street>>,
                <<addr.Locality>>, <<addr.Region>>, <<addr.PostalCode>>,
                <<addr.CountryName>>>>)

TelephoneWriteTo(tel) == ContentLine("", "TEL", [type |-> tel.Type], <<<<tel.Number>>>>)

EmailWriteTo(email) == ContentLine("", "EMAIL", [type |-> email.Type], <<<<email.Address>>>>)

XJabberWriteTo(jab) == ContentLine("", "X-JABBER", [type |-> jab.Type], <<<<jab.Address>>>>)

\* faulty variant: the telephones are written before the addresses
WriteToLines_TelFirst(v) ==
  <<TextLine("BEGIN", TxtVCARD), TextLine("VERSION", TxtVersion30),
    TextLine("FN", v.FormattedName),
    ContentLine("", "N", NoParams,
                <<v.FamilyNames, v.GivenNames, v.AdditionalNames, v.HonorificNames,
                  v.HonorificSuffixes>>)>>
  \o OptList("NICKNAME", v.NickNames)
  \o PhotoWriteTo(v.Photo)
  \o OptText("BDAY", v.Birthday)
  \o [i \in 1..Len(v.Telephones) |-> TelephoneWriteTo(v.Telephones[i])]
  \o [i \in 1..Len(v.Addresses) |-> AddressWriteTo(v.Addresses[i])]
  \o [i \in 1..Len(v.Emails) |-> EmailWriteTo(v.Emails[i])]
  \o OptText("TITLE", v.Title)
  \o OptText("ROLE", v.Role)
  \o OptList("ORG", v.Org)
  \o OptList("CATEGORIES", v.Categories)
  \o OptText("NOTE", v.Note)
  \o OptText("URL", v.URL)
  \o [i \in 1..Len(v.XJabbers) |-> XJabberWriteTo(v.XJabbers[i])]
  \o OptText("X-ABShowAs", v.XABShowAs)
  \o OptText("X-ABUID", v.XABuid)
  \o <<TextLine("END", TxtVCARD)>>

WriteToLines(v) ==
  <<TextLine("BEGIN", TxtVCARD), TextLine("VERSION", TxtVersion30),
    TextLine("FN", v.FormattedName),
    ContentLine("", "N", NoParams,
                <<v.FamilyNames, v.GivenNames, v.AdditionalNames, v.HonorificNames,
                  v.HonorificSuffixes>>)>>
  \o OptList("NICKNAME", v.NickNames)
  \o PhotoWriteTo(v.Photo)
  \o OptText("BDAY", v.Birthday)
  \o [i \in 1..Len(v.Addresses) |-> AddressWriteTo(v.Addresses[i])]
  \o [i \in 1..Len(v.Telephones) |-> TelephoneWriteTo(v.Telephones[i])]
  \o [i \in 1..Len(v.Emails) |-> EmailWriteTo(v.Emails[i])]
  \o OptText("TITLE", v.Title)
  \o OptText("ROLE", v.Role)
  \o OptList("ORG", v.Org)
  \o OptList("CATEGORIES", v.Categories)
  \o OptText("NOTE", v.Note)
  \o OptText("URL", v.URL)
  \o [i \in 1..Len(v.XJabbers) |-> XJabberWriteTo(v.XJabbers[i])]
  \o OptText("X-ABShowAs", v.XABShowAs)
  \o OptText("X-ABUID", v.XABuid)
  \o <<TextLine("END", TxtVCARD)>>

(***************************************************************************)
(* Actions                                                                 *)
(***************************************************************************)
\* ReadFrom is entered: the first ReadContentLine
ReadFromCall ==
  /\ pc \in {"idle", "done"}
  /\ LET r == ReadContentLine(input, pos)
     IN cur' = r.cl /\ pos' = r.pos
  /\ pc' = "loop"
  /\ UNCHANGED <<input, reader, vcard, out, nWrites, saved>>

\* the loop condition fails: contentLine is nil
ReadFromEOF ==
  /\ pc = "loop"
  /\ cur = NilLine
  /\ pc' = "done"
  /\ UNCHANGED <<input, pos, reader, cur, vcard, out, nWrites, saved>>

\* END with value VCARD: return
ReadFromEnd ==
  /\ pc = "loop"
  /\ cur # NilLine
  /\ IsEndOfCard(cur)
  /\ pc' = "done"
  /\ UNCHANGED <<input, pos, reader, cur, vcard, out, nWrites, saved>>

\* faulty variant of the loop body: returns after one line instead of reading on
ReadFromApply_ReturnsAfterOne ==
  /\ pc = "loop"
  /\ cur # NilLine
  /\ ~IsEndOfCard(cur)
  /\ vcard' = ApplyLine(vcard, cur)
  /\ pc' = "done"
  /\ UNCHANGED <<input, pos, reader, cur, out, nWrites, saved>>

\* any other line: one pass through the switch, then the next ReadContentLine
ReadFromApply ==
  /\ pc = "loop"
  /\ cur # NilLine
  /\ ~IsEndOfCard(cur)
  /\ vcard' = ApplyLine(vcard, cur)
  /\ LET r == ReadContentLine(input, pos)
     IN cur' = r.cl /\ pos' = r.pos
  /\ UNCHANGED <<input, reader, pc, out, nWrites, saved>>

\* vcard.WriteTo(di)
WriteTo ==
  /\ pc \in {"idle", "done"}
  /\ nWrites < MaxWrites
  /\ out' = out \o WriteToLines(vcard)
  /\ nWrites' = nWrites + 1
  /\ saved' = vcard
  /\ UNCHANGED <<input, pos, reader, cur, pc, vcard>>

\* the ContentLines in the writer, as stream items of a reader
Loopback(lines) == [i \in 1..Len(lines) |-> [kind |-> "parsed", cl |-> lines[i]]]

\* a new reader is opened on exactly the ContentLines written so far, and a
\* fresh VCard is about to read them
ReadBack ==
  /\ pc \in {"idle", "done"}
  /\ reader = "stream"
  /\ Len(out) > 0
  /\ input' = Loopback(out)
  /\ pos' = 0
  /\ reader' = "loopback"
  /\ cur' = NilLine
  /\ pc' = "idle"
  /\ vcard' = EmptyVCard
  /\ UNCHANGED <<out, nWrites, saved>>

Next ==
  \/ ReadFromCall
  \/ ReadFromEOF
  \/ ReadFromEnd
  \/ ReadFromApply
  \/ WriteTo
  \/ ReadBack

(***************************************************************************)
(* Inputs                                                                  *)
(***************************************************************************)
RawLine(name, params, raw) ==
  [kind |-> "raw", Group |-> "", Name |-> name, Params |-> params, Raw |-> raw]

\* a logical line with no colon
NoColonLine == [kind |-> "nocolon"]

\* "a;b"
TxtAB == <<97, 59, 98>>

\* the lines of the streams of Spec
StreamLines ==
  { NoColonLine,
    RawLine("BEGIN", NoParams, TxtVCARD),
    RawLine("END", NoParams, TxtVCARD),
    RawLine("END", NoParams, TxtX),
    RawLine("FN", NoParams, TxtX),
    RawLine("TITLE", NoParams, TxtY),
    RawLine("X-FOO", NoParams, TxtX),
    RawLine("TEL", NoParams, TxtX),
    RawLine("ADR", NoParams, TxtAB) }

RECURSIVE SeqsUpTo(_, _)
SeqsUpTo(S, n) ==
  IF n = 0 THEN {<<>>}
  ELSE LET shorter == SeqsUpTo(S, n - 1)
       IN shorter \cup {Append(s, x) : s \in {t \in shorter : Len(t) = n - 1}, x \in S}

InitWith(in, v) ==
  /\ input = in
  /\ pos = 0
  /\ reader = "stream"
  /\ cur = NilLine
  /\ pc = "idle"
  /\ vcard = v
  /\ out = <<>>
  /\ nWrites = 0
  /\ saved = EmptyVCard

\* "a;b;c;d;e;f;g" and "a;b;c;d;e;f;g;h"
TxtSeven == <<97, 59, 98, 59, 99, 59, 100, 59, 101, 59, 102, 59, 103>>
TxtEight == <<97, 59, 98, 59, 99, 59, 100, 59, 101, 59, 102, 59, 103, 59, 104>>
\* "a,b;c"
TxtList == <<97, 44, 98, 59, 99>>
\* "=3D41": quoted-printable for "=41", which is itself quoted-printable for "A"
TxtQP2 == <<61, 51, 68, 52, 49>>
\* "=41;b": quoted-printable for "A;b"
TxtQP1 == <<61, 52, 49, 59, 98>>
\* "=zz;=3D41": the first escape is malformed
TxtQPBad == <<61, 122, 122, 59, 61, 51, 68, 52, 49>>
\* "=3Dz": quoted-printable for "=z", which is malformed quoted-printable
TxtQPBad2 == <<61, 51, 68, 122>>

RawTexts ==
  {EmptyText, TxtX, TxtVCARD, TxtAB, TxtSeven, TxtEight, TxtList, TxtQP2, TxtQP1,
   TxtQPBad, TxtQPBad2}

\* every recognised property in upper case, lower case and one mixed case,
\* and two names that are no property
LineNames ==
  {"VERSION", "version", "Version", "END", "end", "End", "FN", "fn", "Fn",
   "N", "n", "NICKNAME", "nickname", "NickName", "PHOTO", "photo", "Photo",
   "BDAY", "bday", "Bday", "ADR", "adr", "Adr", "X-ABUID", "x-abuid", "X-ABUid",
   "TEL", "tel", "Tel", "EMAIL", "email", "Email", "TITLE", "title", "Title",
   "ROLE", "role", "Role", "ORG", "org", "Org",
   "CATEGORIES", "categories", "Categories", "NOTE", "note", "Note",
   "URL", "url", "Url", "X-JABBER", "x-jabber", "X-Jabber",
   "X-GTALK", "x-gtalk", "X-GTalk", "X-ABShowAs", "X-ABSHOWAS", "x-abshowas",
   "BEGIN", "X-FOO"}

\* parameter maps, keys as written
LineParams ==
  { NoParams,
    [TYPE |-> <<TxtHOME>>], [type |-> <<TxtWORK>>], [Type |-> <<TxtWORK, TxtVoice>>],
    [ENCODING |-> <<TxtQPUpper>>], [ENCODING |-> <<TxtQPLower>>],
    [ENCODING |-> <<TxtQPMixed>>],
    [encoding |-> <<TxtQPUpper>>], [ENCODING |-> <<Txt8BIT>>],
    [ENCODING |-> <<TxtQPUpper>>, TYPE |-> <<TxtJPEG>>, VALUE |-> <<TxtX>>] }

\* the line that may follow the line under test
Followers == {<<>>, <<RawLine("TITLE", NoParams, TxtY)>>}

\* a fresh VCard reads one logical line of any name, parameters and raw value
InitLine ==
  \E name \in LineNames, params \in LineParams, raw \in RawTexts, rest \in Followers :
    InitWith(<<RawLine(name, params, raw)>> \o rest, EmptyVCard)

SpecLine == InitLine /\ [][Next]_vars

\* VCards to write: Version 3.0, non-empty Type lists
CardPhotos ==
  { EmptyPhoto,
    Photo(EmptyText, EmptyText, EmptyText, TxtX),
    Photo(EmptyText, TxtJPEG, EmptyText, TxtX),
    Photo(TxtQPUpper, TxtJPEG, TxtY, TxtX),
    Photo(Txt8BIT, EmptyText, EmptyText, EmptyText) }

AddrWork == Address(<<TxtWORK>>, EmptyText, EmptyText, TxtX, TxtY, EmptyText, TxtX, EmptyText)
AddrDefault == Address(defaultAddressTypes, TxtX, EmptyText, EmptyText, EmptyText, EmptyText, EmptyText, TxtY)

CardAddresses == {<<>>, <<AddrWork>>, <<AddrDefault>>, <<AddrDefault, AddrWork>>}

CardTelephones ==
  {<<>>, <<Telephone(<<TxtHOME>>, TxtX)>>,
   <<Telephone(<<TxtWORK, TxtVoice>>, TxtX), Telephone(<<TxtVoice>>, TxtY)>>}

CardEmails == {<<>>, <<Email(<<TxtWORK>>, TxtX)>>}

CardXJabbers == {<<>>, <<XJabber(<<TxtHOME>>, TxtY)>>}

\* which of the remaining optional fields are set
CardExtras ==
  { {}, {"Birthday", "Title", "Role", "Org", "Categories", "Note", "URL", "XABShowAs", "XABuid"},
    {"Title", "Note"}, {"Birthday", "Org", "URL", "XABuid"}, {"Role", "Categories", "XABShowAs"} }

Card(fn, names, nick, photo, addrs, tels, emails, jabs, extras) ==
  LET txt(f) == IF f \in extras THEN TxtX ELSE EmptyText
      lst(f) == IF f \in extras THEN <<TxtX, TxtY>> ELSE <<>>
  IN [Version |-> TxtVersion30, FormattedName |-> fn, FamilyNames |-> names,
      GivenNames |-> names, AdditionalNames |-> <<>>, HonorificNames |-> <<>>,
      HonorificSuffixes |-> IF names = <<>> THEN <<>> ELSE <<TxtY>>, NickNames |-> nick,
      Photo |-> photo, Birthday |-> txt("Birthday"), Addresses |-> addrs,
      Telephones |-> tels, Emails |-> emails, Title |-> txt("Title"),
      Role |-> txt("Role"), Org |-> lst("Org"), Categories |-> lst("Categories"),
      Note |-> txt("Note"), URL |-> txt("URL"), XJabbers |-> jabs,
      XABuid |-> txt("XABuid"), XABShowAs |-> txt("XABShowAs")]

\* a VCard built by the caller is written, on a reader with nothing to read
InitCard ==
  \E fn \in {EmptyText, TxtX}, names \in {<<>>, <<TxtX, TxtY>>}, nick \in {<<>>, <<TxtX>>},
     photo \in CardPhotos, addrs \in CardAddresses, tels \in CardTelephones,
     emails \in CardEmails, jabs \in CardXJabbers, extras \in CardExtras :
    InitWith(<<>>, Card(fn, names, nick, photo, addrs, tels, emails, jabs, extras))

SpecCard == InitCard /\ [][Next]_vars

\* a fresh VCard reads a stream of at most MaxLines logical lines
Init == \E in \in SeqsUpTo(StreamLines, MaxLines) : InitWith(in, EmptyVCard)

Spec == Init /\ [][Next]_vars

(***************************************************************************)
(* Vocabulary of the properties                                            *)
(***************************************************************************)
\* a ReadFrom loop iteration is about to handle the line in cur
AtLine == pc = "loop" /\ cur # NilLine

\* the names the switch of ReadFrom has a label for
RecognisedLabels ==
  {"VERSION", "version", "END", "end", "FN", "fn", "N", "n", "NICKNAME", "nickname",
   "PHOTO", "photo", "BDAY", "bday", "ADR", "adr", "X-ABUID", "x-abuid", "TEL", "tel",
   "EMAIL", "email", "TITLE", "title", "ROLE", "role", "ORG", "org",
   "CATEGORIES", "categories", "NOTE", "note", "URL", "url", "X-JABBER", "x-jabber",
   "X-GTALK", "x-gtalk", "X-ABShowAs"}

\* the index of the first well-formed logical line after position p, 0 if none
FirstWellFormedAfter(in, p) ==
  LET js == {j \in (p + 1)..Len(in) : in[j].kind # "nocolon"}
  IN IF js = {} THEN 0 ELSE CHOOSE j \in js : \A k \in js : j <= k

\* what the read after position p has to yield
YieldsNextAfter(in, p, cl, q) ==
  LET j == FirstWellFormedAfter(in, p)
  IN IF j = 0 THEN cl = NilLine /\ q = Len(in)
     ELSE q = j /\ cl = (IF in[j].kind = "raw" THEN ScanLine(in[j]) ELSE in[j].cl)

IsEndVCardLine(cl) == cl.Name \in {"END", "end"} /\ SVGetText(cl.Value) = TxtVCARD

(***************************************************************************)
(* C1: ReadFrom consumes the content lines one at a time and returns at    *)
(* the first END whose value is VCARD: that step reads nothing more and    *)
(* changes no field, so the next ReadFrom call starts with the line right  *)
(* after it.  An END with another value changes nothing and the loop goes  *)
(* on with the next line.                                                  *)
(***************************************************************************)
C1_ReturnsAtEndVCard ==
  /\ [][(AtLine /\ cur.Name \in {"END", "end"}) =>
          IF SVGetText(cur.Value) = TxtVCARD
          THEN pc' = "done" /\ pos' = pos /\ input' = input /\ vcard' = vcard /\ cur' = cur
          ELSE pc' = "loop" /\ vcard' = vcard /\ input' = input
               /\ YieldsNextAfter(input, pos, cur', pos')]_vars
  /\ [][(pc = "done" /\ pc' = "loop") =>
          input' = input /\ vcard' = vcard /\ YieldsNextAfter(input, pos, cur', pos')]_vars
  /\ [][(pos' # pos /\ input' = input) =>
          pos' > pos
          /\ Cardinality({j \in (pos + 1)..pos' : input[j].kind # "nocolon"}) <= 1]_vars

\* ReadFrom has returned at END:VCARD, an FN line behind it is unread and unapplied
C1_Witness ==
  /\ reader = "stream" /\ pc = "done" /\ cur # NilLine
  /\ IsEndVCardLine(cur)
  /\ pos < Len(input) /\ input[pos + 1].kind = "raw" /\ input[pos + 1].Name = "FN"
  /\ vcard.FormattedName = EmptyText

(***************************************************************************)
(* C2: property names are case-insensitive: a line whose name is any       *)
(* spelling of a recognised property has the effect of the same line under *)
(* the property's listed name.                                             *)
(***************************************************************************)
\* the listed name of each spelling
Canonical(name) ==
  CASE name \in {"version", "Version"} -> "VERSION"
    [] name \in {"end", "End"} -> "END"
    [] name \in {"fn", "Fn"} -> "FN"
    [] name = "n" -> "N"
    [] name \in {"nickname", "NickName"} -> "NICKNAME"
    [] name \in {"photo", "Photo"} -> "PHOTO"
    [] name \in {"bday", "Bday"} -> "BDAY"
    [] name \in {"adr", "Adr"} -> "ADR"
    [] name \in {"x-abuid", "X-ABUid"} -> "X-ABUID"
    [] name \in {"tel", "Tel"} -> "TEL"
    [] name \in {"email", "Email"} -> "EMAIL"
    [] name \in {"title", "Title"} -> "TITLE"
    [] name \in {"role", "Role"} -> "ROLE"
    [] name \in {"org", "Org"} -> "ORG"
    [] name \in {"categories", "Categories"} -> "CATEGORIES"
    [] name \in {"note", "Note"} -> "NOTE"
    [] name \in {"url", "Url"} -> "URL"
    [] name \in {"x-jabber", "X-Jabber"} -> "X-JABBER"
    [] name \in {"x-gtalk", "X-GTalk"} -> "X-GTALK"
    [] name \in {"X-ABSHOWAS", "x-abshowas"} -> "X-ABShowAs"
    [] OTHER -> name

C2_NamesCaseInsensitive ==
  [][(AtLine /\ reader = "stream") =>
       LET listed == [cur EXCEPT !.Name = Canonical(cur.Name)]
       IN IF IsEndOfCard(listed)
          THEN pc' = "done" /\ vcard' = vcard
          ELSE pc' = "loop" /\ vcard' = ApplyLine(vcard, listed)]_vars

(***************************************************************************)
(* C3: parameter keys are matched case-insensitively: a TEL, EMAIL,        *)
(* X-JABBER, ADR or PHOTO line with a type parameter written TYPE, type or *)
(* Type gets that parameter's values as its Type, and the default only     *)
(* when there is no type parameter in any case.                            *)
(***************************************************************************)
TypeKeys(cl) == {k \in DOMAIN cl.Params : k \in {"TYPE", "type", "Type"}}

TypeParamOr(cl, default) ==
  IF TypeKeys(cl) = {} THEN default ELSE cl.Params[CHOOSE k \in TypeKeys(cl) : TRUE]

LastOf(s) == s[Len(s)]

C3_ParamKeysCaseInsensitive ==
  [][(AtLine /\ reader = "stream") =>
       /\ cur.Name = "TEL" =>
            LastOf(vcard'.Telephones).Type = TypeParamOr(cur, <<TxtVoice>>)
       /\ cur.Name = "EMAIL" =>
            LastOf(vcard'.Emails).Type = TypeParamOr(cur, <<TxtHOME>>)
       /\ cur.Name = "X-JABBER" =>
            LastOf(vcard'.XJabbers).Type = TypeParamOr(cur, <<TxtHOME>>)
       /\ cur.Name = "ADR" =>
            LastOf(vcard'.Addresses).Type = TypeParamOr(cur, defaultAddressTypes)
       /\ cur.Name = "PHOTO" =>
            vcard'.Photo.Type = JoinTexts(TypeParamOr(cur, <<>>), 44)]_vars

(***************************************************************************)
(* C4: a line whose name the switch has no label for changes no field of   *)
(* the VCard, and the loop goes on with the next content line, so that a   *)
(* recognised line behind it is still applied.                             *)
(***************************************************************************)
\* the text of the last FN line of the stream, if it follows an unrecognised line
FNAfterUnknown(in) ==
  {j \in 1..Len(in) :
     /\ in[j].kind = "raw" /\ in[j].Name = "FN"
     /\ \A k \in (j + 1)..Len(in) : in[k].kind = "nocolon" \/ in[k].Name # "FN"
     /\ \E k \in 1..(j - 1) : in[k].kind = "raw" /\ in[k].Name \notin RecognisedLabels}

C4_UnknownIgnored ==
  /\ [][(AtLine /\ cur.Name \notin RecognisedLabels) =>
          vcard' = vcard /\ pc' = "loop" /\ input' = input
          /\ YieldsNextAfter(input, pos, cur', pos')]_vars
  /\ [](reader = "stream" /\ pc = "done" /\ cur = NilLine =>
          \A j \in FNAfterUnknown(input) : vcard.FormattedName = SVGetText(ScanLine(input[j]).Value))

\* the stream is read to its end: an unrecognised line, then an FN line that is applied
C4_Witness ==
  /\ reader = "stream" /\ pc = "done" /\ cur = NilLine
  /\ FNAfterUnknown(input) # {}
  /\ vcard.FormattedName = TxtX
  /\ vcard.Addresses = <<>> /\ vcard.Telephones = <<>> /\ vcard.Note = EmptyText

(***************************************************************************)
(* C5: a logical line with no colon does not end reading: the reader skips *)
(* it and yields the next well-formed line, and ReadFrom returns only at   *)
(* END:VCARD or at the true end of the stream, so that a recognised line   *)
(* behind the malformed one is applied.                                    *)
(***************************************************************************)
\* the last TITLE line of the stream, if it follows a line with no colon
TitleAfterNoColon(in) ==
  {j \in 1..Len(in) :
     /\ in[j].kind = "raw" /\ in[j].Name = "TITLE"
     /\ \A k \in (j + 1)..Len(in) : in[k].kind = "nocolon" \/ in[k].Name # "TITLE"
     /\ \E k \in 2..(j - 1) : in[k].kind = "nocolon" /\ in[k - 1].kind = "raw"}

C5_NoColonSkipped ==
  /\ [][(pos' # pos /\ input' = input) => YieldsNextAfter(input, pos, cur', pos')]_vars
  /\ [](pc = "done" => IF cur = NilLine THEN pos = Len(input) ELSE IsEndVCardLine(cur))
  /\ [](reader = "stream" /\ pc = "done" /\ cur = NilLine =>
          \A j \in TitleAfterNoColon(input) : vcard.Title = SVGetText(ScanLine(input[j]).Value))

\* one ReadFrom call has read past a line with no colon and applied the TITLE behind it
C5_Witness ==
  /\ reader = "stream" /\ pc = "done" /\ cur = NilLine
  /\ TitleAfterNoColon(input) # {}
  /\ \A k \in 1..Len(input) : input[k].kind = "raw" => ~(input[k].Name = "END")
  /\ vcard.Title = TxtY

(***************************************************************************)
(* Vocabulary for the structured properties                                *)
(***************************************************************************)
\* the positional fields of an Address and of the name, by index
AddrField(a, i) ==
  CASE i = 0 -> a.PostOfficeBox
    [] i = 1 -> a.ExtendedAddress
    [] i = 2 -> a.Street
    [] i = 3 -> a.Locality
    [] i = 4 -> a.Region
    [] i = 5 -> a.PostalCode
    [] i = 6 -> a.CountryName

NameField(v, i) ==
  CASE i = 0 -> v.FamilyNames
    [] i = 1 -> v.GivenNames
    [] i = 2 -> v.AdditionalNames
    [] i = 3 -> v.HonorificNames
    [] i = 4 -> v.HonorificSuffixes

\* t is "quoted-printable" in some letter case
IsQPName(t) ==
  /\ Len(t) = Len(TxtQPLower)
  /\ \A i \in 1..Len(t) : t[i] = TxtQPLower[i] \/ t[i] + 32 = TxtQPLower[i]

\* the line carries ENCODING with the value quoted-printable
EncodingIsQP(cl) ==
  "ENCODING" \in DOMAIN cl.Params /\ IsQPName(JoinTexts(cl.Params["ENCODING"], 44))

\* "=zz" and "=41"
TxtBadEscape == <<61, 122, 122>>
TxtEq41 == <<61, 52, 49>>

(***************************************************************************)
(* C6: a quoted-printable decode failure is local: for a line whose        *)
(* ENCODING is quoted-printable in any letter case, a component whose text *)
(* does not decode is returned as its undecoded text; with ENCODING absent *)
(* or different the text is returned unchanged; the other components of    *)
(* an ADR line are still processed, one Address is appended, and the loop  *)
(* goes on with the next content line.                                     *)
(***************************************************************************)
\* what ADR stores for component i of cl
ExpectedText(cl, i) ==
  IF i >= Len(cl.Value) THEN EmptyText
  ELSE LET t == JoinTexts(cl.Value[i + 1], 44)
       IN IF EncodingIsQP(cl) /\ QPDecode(t).ok THEN QPDecode(t).bytes ELSE t

C6_DecodeFailureLocal ==
  /\ [](cur # NilLine =>
          \A i \in 0..(Len(cur.Value) - 1) :
            LET t == JoinTexts(cur.Value[i + 1], 44)
                r == getValueFromContentLine(i, cur).text
            IN /\ (EncodingIsQP(cur) /\ ~QPDecode(t).ok) => r = t
               /\ ~EncodingIsQP(cur) => r = t)
  /\ [][(AtLine /\ cur.Name \in {"ADR", "adr"} /\ Len(cur.Value) > 0) =>
          /\ Len(vcard'.Addresses) = Len(vcard.Addresses) + 1
          /\ \A i \in 0..countryName :
               AddrField(LastOf(vcard'.Addresses), i) = ExpectedText(cur, i)
          /\ pc' = "loop" /\ YieldsNextAfter(input, pos, cur', pos')]_vars

\* an ADR line =zz;=3D41 under ENCODING=quoted-printable: the first component is
\* kept undecoded, the second is decoded, and the TITLE line behind it is applied
C6_Witness ==
  /\ reader = "stream" /\ pc = "done"
  /\ EncodingIsQP(input[1])
  /\ Len(vcard.Addresses) = 1
  /\ vcard.Addresses[1].PostOfficeBox = TxtBadEscape
  /\ vcard.Addresses[1].ExtendedAddress = TxtEq41
  /\ vcard.Title = TxtY

(***************************************************************************)
(* C7: indexed access never faults on absence: getValueFromContentLine     *)
(* yields (nil, "") at an index the value does not have and the component  *)
(* otherwise; an N line with k components fills the first k name fields    *)
(* and empties the others, an ADR line with k components fills the first k *)
(* address fields and leaves the others empty; a scanned value always has  *)
(* a component, so a scanned ADR line appends exactly one Address.         *)
(***************************************************************************)
C7_IndexedAccessSafe ==
  /\ [](cur # NilLine =>
          \A i \in 0..addressSize :
            LET r == getValueFromContentLine(i, cur)
            IN IF Len(cur.Value) <= i
               THEN r.val = <<>> /\ r.text = EmptyText
               ELSE r.val = cur.Value[i + 1])
  /\ [](cur # NilLine /\ reader = "stream" => Len(cur.Value) >= 1)
  /\ [][(AtLine /\ cur.Name \in {"N", "n"}) =>
          \A i \in 0..honorificSuffixes :
            NameField(vcard', i) = IF i < Len(cur.Value) THEN cur.Value[i + 1] ELSE <<>>]_vars
  /\ [][(AtLine /\ cur.Name \in {"ADR", "adr"} /\ reader = "stream") =>
          /\ Len(vcard'.Addresses) = Len(vcard.Addresses) + 1
          /\ \A i \in 0..countryName :
               LET f == AddrField(LastOf(vcard'.Addresses), i)
               IN IF i >= Len(cur.Value) THEN f = EmptyText
                  ELSE "ENCODING" \notin DOMAIN cur.Params => f = JoinTexts(cur.Value[i + 1], 44)]_vars

\* an N line a;b has been applied: two name fields filled, the others empty
C7_Witness ==
  /\ reader = "stream" /\ pc = "done"
  /\ input[1].Name = "N" /\ input[1].Raw = TxtAB
  /\ vcard.FamilyNames = <<<<97>>>> /\ vcard.GivenNames = <<<<98>>>>
  /\ vcard.AdditionalNames = <<>> /\ vcard.HonorificNames = <<>>
  /\ vcard.HonorificSuffixes = <<>>

(***************************************************************************)
(* C8: mapping-level round trip: a fresh VCard that reads back exactly the *)
(* ContentLines WriteTo emitted for a VCard with Version 3.0 and non-empty *)
(* Type lists equals that VCard in every written field.                    *)
(***************************************************************************)
RoundTripInput(v) ==
  /\ v.Version = TxtVersion30
  /\ \A i \in 1..Len(v.Addresses) : v.Addresses[i].Type # <<>>
  /\ \A i \in 1..Len(v.Telephones) : v.Telephones[i].Type # <<>>
  /\ \A i \in 1..Len(v.Emails) : v.Emails[i].Type # <<>>
  /\ \A i \in 1..Len(v.XJabbers) : v.XJabbers[i].Type # <<>>

\* equality on the fields WriteTo writes: the Photo only when it has Data
EqualWritten(r, v) ==
  /\ [r EXCEPT !.Photo = EmptyPhoto] = [v EXCEPT !.Photo = EmptyPhoto]
  /\ Len(v.Photo.Data) # 0 => r.Photo = v.Photo

C8_RoundTrip ==
  (/\ reader = "loopback" /\ pc = "done" /\ nWrites = 1
   /\ input = [i \in 1..Len(out) |-> [kind |-> "parsed", cl |-> out[i]]]
   /\ RoundTripInput(saved))
  => EqualWritten(vcard, saved)

(***************************************************************************)
(* C9: a value declared ENCODING=QUOTED-PRINTABLE is decoded exactly once  *)
(* on the read path: the address fields stored for an ADR line with raw    *)
(* text t are the components of the single decoding of t, and the lists    *)
(* stored for N are in the same decoding state as the text stored for ADR. *)
(***************************************************************************)
C9_DecodedOnce ==
  /\ [][(AtLine /\ reader = "stream" /\ cur.Name = "ADR" /\ EncodingIsQP(cur)
          /\ QPDecode(input[pos].Raw).ok) =>
          LET once == splitStructured(QPDecode(input[pos].Raw).bytes)
          IN \A i \in 0..countryName :
               AddrField(LastOf(vcard'.Addresses), i) =
                 IF i < Len(once) THEN JoinTexts(once[i + 1], 44) ELSE EmptyText]_vars
  /\ [][(AtLine /\ reader = "stream" /\ cur.Name = "N" /\ EncodingIsQP(cur)) =>
          \A i \in 0..honorificSuffixes :
            JoinTexts(NameField(vcard', i), 44) = ExpectedText(cur, i)]_vars

(***************************************************************************)
(* C10: every WriteTo call appends one well-framed record in a fixed       *)
(* order: BEGIN:VCARD, VERSION:3.0, FN, N, then each optional property in  *)
(* its place and only when its field is non-empty, one line per list entry *)
(* in list order, and END:VCARD last; the VCard is not modified.           *)
(***************************************************************************)
NameIf(cond, name) == IF cond THEN <<name>> ELSE <<>>

NameTimes(n, name) == [i \in 1..n |-> name]

ExpectedNames(v) ==
  <<"BEGIN", "VERSION", "FN", "N">>
  \o NameIf(v.NickNames # <<>>, "NICKNAME")
  \o NameIf(v.Photo.Data # EmptyText, "PHOTO")
  \o NameIf(v.Birthday # EmptyText, "BDAY")
  \o NameTimes(Len(v.Addresses), "ADR")
  \o NameTimes(Len(v.Telephones), "TEL")
  \o NameTimes(Len(v.Emails), "EMAIL")
  \o NameIf(v.Title # EmptyText, "TITLE")
  \o NameIf(v.Role # EmptyText, "ROLE")
  \o NameIf(v.Org # <<>>, "ORG")
  \o NameIf(v.Categories # <<>>, "CATEGORIES")
  \o NameIf(v.Note # EmptyText, "NOTE")
  \o NameIf(v.URL # EmptyText, "URL")
  \o NameTimes(Len(v.XJabbers), "X-JABBER")
  \o NameIf(v.XABShowAs # EmptyText, "X-ABShowAs")
  \o NameIf(v.XABuid # EmptyText, "X-ABUID")
  \o <<"END">>

LinesNamed(lines, name) == SelectSeq(lines, LAMBDA l : l.Name = name)

C10_WriteToFraming ==
  [][nWrites' = nWrites + 1 =>
       LET new == SubSeq(out', Len(out) + 1, Len(out'))
       IN /\ SubSeq(out', 1, Len(out)) = out
          /\ [i \in 1..Len(new) |-> new[i].Name] = ExpectedNames(vcard)
          /\ new[1].Value = <<<<TxtVCARD>>>>
          /\ new[2].Value = <<<<TxtVersion30>>>>
          /\ new[3].Value = <<<<vcard.FormattedName>>>>
          /\ new[Len(new)].Value = <<<<TxtVCARD>>>>
          /\ Len(LinesNamed(new, "BEGIN")) = 1 /\ Len(LinesNamed(new, "END")) = 1
          /\ \A k \in 1..Len(vcard.Addresses) :
               LinesNamed(new, "ADR")[k].Value[3] = <<vcard.Addresses[k].Street>>
               /\ LinesNamed(new, "ADR")[k].Value[1] = <<vcard.Addresses[k].PostOfficeBox>>
          /\ \A k \in 1..Len(vcard.Telephones) :
               LinesNamed(new, "TEL")[k].Value = <<<<vcard.Telephones[k].Number>>>>
          /\ \A k \in 1..Len(vcard.Emails) :
               LinesNamed(new, "EMAIL")[k].Value = <<<<vcard.Emails[k].Address>>>>
          /\ \A k \in 1..Len(vcard.XJabbers) :
               LinesNamed(new, "X-JABBER")[k].Value = <<<<vcard.XJabbers[k].Address>>>>
          /\ vcard' = vcard]_vars

\* a VCard with two addresses, two telephones and a photo has been written
C10_Witness ==
  /\ nWrites = 1 /\ reader = "stream"
  /\ Len(saved.Addresses) = 2 /\ Len(saved.Telephones) = 2 /\ saved.Photo.Data # EmptyText
  /\ saved.Title # EmptyText /\ saved.Birthday = EmptyText
  /\ out[1].Name = "BEGIN" /\ out[Len(out)].Name = "END"
  /\ Len(out) = Len(ExpectedNames(saved))

====
